---- MODULE Spec2Model ----
(***************************************************************************)
(* Model of ExamScheduler (src/exam_scheduler.py).                         *)
(*                                                                         *)
(*   Spec     schedule_exams: the day/slot distribution, one step per      *)
(*            iteration of the day loop.                                   *)
(*   SpecAgg  get_all_pre_mid_courses / get_all_post_mid_courses: the      *)
(*            semester x department walk and the global dedup.             *)
(*                                                                         *)
(* Course identifiers are positive integers.  A table cell that holds a    *)
(* joined string is a sequence of identifiers separated by Sep.            *)
(***************************************************************************)
EXTENDS Integers, Sequences, FiniteSets

(* ------------------------------ bounds -------------------------------- *)
\* largest number of distinct course identifiers handed to schedule_exams
MaxCourses == 10
\* lists up to this length are shuffled into every permutation; longer
\* lists into every rotation of the list and of its reverse
MaxFullShuffle == 4
\* the num_days argument ranges over -MaxNegDays..MaxDays
MaxNegDays == 8
MaxDays == 8
\* total number of course rows in the source data of the aggregator
MaxRows == 2
\* number of distinct course identifiers in the source data
MaxCodes == 2

(* --------------------------- program constants ------------------------ *)
\* a missing 'Course Code' cell (NaN)
NA == 0
\* the ', ' that joins the course codes of one cell
Sep == -1
\* the fixed day-label sequence of schedule_exams
ExamDayNames == <<"Saturday", "Monday", "Tuesday", "Wednesday", "Thursday", "Friday", "Monday">>
\* config.TARGET_SEMESTERS and config.DEPARTMENTS: ordered lists
TARGET_SEMESTERS == <<1, 3>>
DEPARTMENTS == <<"CSE", "ECE">>
PRE_MID == "Pre-Mid"
POST_MID == "Post-Mid"

VARIABLES
    \* schedule_exams
    pc,               \* "idle" | "loop" | "done" | "raised"
    courses_df,       \* argument: [hasCode, codes]
    num_days,         \* argument
    course_list,      \* the shuffled list of unique identifiers
    exam_days,        \* the selected day labels
    fn_schedule,      \* dict: day label -> list of identifiers
    an_schedule,      \* dict: day label -> list of identifiers
    course_idx,       \* the shared cursor
    day_idx,          \* position of the day loop
    courses_this_day, \* allocation computed by the last iteration
    fn_df, an_df,     \* the returned tables
    error,            \* the exception raised, "" for none
    \* get_all_*_courses
    apc,              \* "idle" | "walk" | "done"
    dfs,              \* the source data given to the constructor
    session,          \* PRE_MID or POST_MID: which method runs
    sem_idx,          \* position of the semester loop
    dept_idx,         \* position of the department loop
    all_mid,          \* all_pre_mid / all_post_mid: list of tables
    result,           \* the returned table
    \* export_exam_timetable and _create_exam_sheet
    pre_mid_courses,  \* the Pre-Mid table kept while the Post-Mid one is built
    spc,              \* "idle" | "dates" | "done"
    sheet_days,       \* the exam_days argument of _create_exam_sheet
    sheet_i,          \* position of the date loop
    current_date,     \* the running calendar date
    day_to_date,      \* dict: day label -> calendar date
    sheet             \* the returned sheet: its rows by name

schedVars == <<pc, courses_df, num_days, course_list, exam_days, fn_schedule,
               an_schedule, course_idx, day_idx, courses_this_day, fn_df,
               an_df, error>>
aggVars == <<apc, dfs, session, sem_idx, dept_idx, all_mid, result>>
exportVars == <<pre_mid_courses, spc, sheet_days, sheet_i, current_date,
                day_to_date, sheet>>
vars == <<pc, courses_df, num_days, course_list, exam_days, fn_schedule,
          an_schedule, course_idx, day_idx, courses_this_day, fn_df,
          an_df, error, apc, dfs, session, sem_idx, dept_idx, all_mid, result,
          pre_mid_courses, spc, sheet_days, sheet_i, current_date,
          day_to_date, sheet>>

(* ------------------------------ helpers ------------------------------- *)
Min(a, b) == IF a < b THEN a ELSE b
Max(a, b) == IF a > b THEN a ELSE b

Range(s) == {s[i] : i \in 1..Len(s)}

Iota(n) == [i \in 1..n |-> i]

Reverse(s) == [i \in 1..Len(s) |-> s[Len(s) + 1 - i]]

Rotate(s, k) == [i \in 1..Len(s) |-> s[((i - 1 + k) % Len(s)) + 1]]

RECURSIVE Flatten(_)
Flatten(ss) == IF ss = <<>> THEN <<>> ELSE Head(ss) \o Flatten(Tail(ss))

\* Series.dropna(): the cells that are not missing, in order
DropNA(s) == SelectSeq(s, LAMBDA c : c # NA)

\* Series.unique(): the first occurrence of every value, in order
Unique(s) ==
    LET keep == {i \in 1..Len(s) : \A j \in 1..(i - 1) : s[j] # s[i]}
        RECURSIVE Build(_)
        Build(i) == IF i > Len(s) THEN <<>>
                    ELSE IF i \in keep THEN <<s[i]>> \o Build(i + 1)
                    ELSE Build(i + 1)
    IN Build(1)

\* seq[:n] of Python, for any integer n
PySlice(s, n) ==
    LET stop == IF n >= 0 THEN Min(n, Len(s)) ELSE Max(Len(s) + n, 0)
    IN SubSeq(s, 1, stop)

\* ', '.join(str(c) for c in courses)
RECURSIVE Join(_)
Join(courses) ==
    IF courses = <<>> THEN <<>>
    ELSE IF Len(courses) = 1 THEN <<courses[1]>>
    ELSE <<courses[1], Sep>> \o Join(Tail(courses))

\* pd.DataFrame(): no columns, no rows
EmptyDataFrame == [columns |-> <<>>, cell |-> [d \in {} |-> <<>>]]

\* pd.DataFrame(data) for a dict of one-element lists: one column per key,
\* in insertion order of the keys
FrameOf(days, schedule) ==
    [columns |-> Unique(days),
     cell    |-> [d \in Range(days) |-> Join(schedule[d])]]

\* outcomes of random.shuffle(list)
AllOrders(s) ==
    {[i \in 1..Len(s) |-> s[p[i]]] :
        p \in {q \in [1..Len(s) -> 1..Len(s)] : \A i, j \in 1..Len(s) : q[i] = q[j] => i = j}}

ShuffleOutcomes(s) ==
    IF Len(s) <= MaxFullShuffle THEN AllOrders(s)
    ELSE {Rotate(s, k) : k \in 0..(Len(s) - 1)}
         \cup {Rotate(Reverse(s), k) : k \in 0..(Len(s) - 1)}

(* --------------------------- schedule_exams --------------------------- *)
\* the tables the operation is called with
InputFrames ==
    {[hasCode |-> TRUE, codes |-> Iota(t)] : t \in 0..MaxCourses}
    \cup {[hasCode |-> TRUE, codes |-> <<NA>> \o Iota(t)] : t \in 0..MaxCourses}
    \cup {[hasCode |-> TRUE, codes |-> Iota(t) \o <<NA, 1>>] : t \in 1..MaxCourses}
    \cup {[hasCode |-> FALSE, codes |-> <<NA>>]}

DayCounts == (0 - MaxNegDays)..MaxDays

\* courses_df['Course Code'].dropna().unique().tolist()
CourseCodes(df) == Unique(DropNA(df.codes))

\* the early returns without the 'total_courses == 0' test of line 132
IsEmptyInputNoTotalTest(df, list) ==
    \/ df.codes = <<>>
    \/ ~df.hasCode

\* the three early returns of lines 121-133
IsEmptyInput(df, list) ==
    \/ df.codes = <<>>
    \/ ~df.hasCode
    \/ Len(list) = 0

\* lines 121-133: nothing to schedule
ReturnEmpty ==
    /\ pc = "idle"
    /\ \E df \in InputFrames, n \in DayCounts :
        \E list \in ShuffleOutcomes(IF df.hasCode THEN CourseCodes(df) ELSE <<>>) :
            /\ IsEmptyInput(df, list)
            /\ courses_df' = df
            /\ num_days' = n
            /\ course_list' = list
            /\ fn_df' = EmptyDataFrame
            /\ an_df' = EmptyDataFrame
            /\ pc' = "done"
    /\ UNCHANGED <<exam_days, fn_schedule, an_schedule, course_idx, day_idx,
                   courses_this_day, error>>
    /\ UNCHANGED aggVars
    /\ UNCHANGED exportVars

\* lines 121-146 when exam_days[:num_days] is empty: the division raises
RaiseZeroDivision ==
    /\ pc = "idle"
    /\ \E df \in InputFrames, n \in DayCounts :
        \E list \in ShuffleOutcomes(IF df.hasCode THEN CourseCodes(df) ELSE <<>>) :
            /\ ~IsEmptyInput(df, list)
            /\ Len(PySlice(ExamDayNames, n)) = 0
            /\ courses_df' = df
            /\ num_days' = n
            /\ course_list' = list
            /\ exam_days' = PySlice(ExamDayNames, n)
            /\ fn_schedule' = [d \in {} |-> <<>>]
            /\ an_schedule' = [d \in {} |-> <<>>]
            /\ error' = "ZeroDivisionError"
            /\ pc' = "raised"
    /\ UNCHANGED <<course_idx, day_idx, courses_this_day, fn_df, an_df>>
    /\ UNCHANGED aggVars
    /\ UNCHANGED exportVars

\* lines 121-149: the list is shuffled, the days selected, the dicts built
BeginDistribution ==
    /\ pc = "idle"
    /\ \E df \in InputFrames, n \in DayCounts :
        \E list \in ShuffleOutcomes(IF df.hasCode THEN CourseCodes(df) ELSE <<>>) :
            /\ ~IsEmptyInput(df, list)
            /\ Len(PySlice(ExamDayNames, n)) > 0
            /\ courses_df' = df
            /\ num_days' = n
            /\ course_list' = list
            /\ exam_days' = PySlice(ExamDayNames, n)
            /\ fn_schedule' = [d \in Range(PySlice(ExamDayNames, n)) |-> <<>>]
            /\ an_schedule' = [d \in Range(PySlice(ExamDayNames, n)) |-> <<>>]
            /\ course_idx' = 0
            /\ day_idx' = 0
            /\ pc' = "loop"
    /\ UNCHANGED <<courses_this_day, fn_df, an_df, error>>
    /\ UNCHANGED aggVars
    /\ UNCHANGED exportVars

\* PlainAllocation without lines 155-156: the remainder is not handed out
PlainAllocationNoExtra(total, ndays, i) == total \div ndays

\* lines 146-147 and 153-156: base count, plus 1 on the first 'extra' days
PlainAllocation(total, ndays, i) ==
    LET base  == total \div ndays
        extra == total % ndays
    IN IF i < extra THEN base + 1 ELSE base

\* line 159: the test of the 'at least 1 course per day' rule
FloorUpApplies(total, ndays, i, cursor) ==
    cursor < total /\ PlainAllocation(total, ndays, i) = 0

\* lines 153-160: the allocation of the day at 0-indexed position i
Allocation(total, ndays, i, cursor) ==
    IF FloorUpApplies(total, ndays, i, cursor) THEN 1
    ELSE PlainAllocation(total, ndays, i)

\* AssignLoop without 'course_idx += 1': the cursor never advances
RECURSIVE AssignLoopNoAdvance(_, _, _, _)
AssignLoopNoAdvance(list, bucket, cursor, count) ==
    IF count = 0 THEN [bucket |-> bucket, cursor |-> cursor]
    ELSE IF cursor < Len(list)
         THEN AssignLoopNoAdvance(list, Append(bucket, list[cursor + 1]), cursor, count - 1)
         ELSE AssignLoopNoAdvance(list, bucket, cursor, count - 1)

\* lines 168-171 and 174-177: count guarded appends from the cursor
\* the result is the bucket and the cursor after the loop
RECURSIVE AssignLoop(_, _, _, _)
AssignLoop(list, bucket, cursor, count) ==
    IF count = 0 THEN [bucket |-> bucket, cursor |-> cursor]
    ELSE IF cursor < Len(list)
         THEN AssignLoop(list, Append(bucket, list[cursor + 1]), cursor + 1, count - 1)
         ELSE AssignLoop(list, bucket, cursor, count - 1)

\* lines 151-177: one iteration of the day loop
DayIteration ==
    /\ pc = "loop"
    /\ day_idx < Len(exam_days)
    /\ LET day      == exam_days[day_idx + 1]
           ctd      == Allocation(Len(course_list), Len(exam_days), day_idx, course_idx)
           fn_count == (ctd + 1) \div 2
           an_count == ctd - fn_count
           fn       == AssignLoop(course_list, fn_schedule[day], course_idx, fn_count)
           an       == AssignLoop(course_list, an_schedule[day], fn.cursor, an_count)
       IN /\ courses_this_day' = ctd
          /\ fn_schedule' = [fn_schedule EXCEPT ![day] = fn.bucket]
          /\ an_schedule' = [an_schedule EXCEPT ![day] = an.bucket]
          /\ course_idx' = an.cursor
    /\ day_idx' = day_idx + 1
    /\ UNCHANGED <<pc, courses_df, num_days, course_list, exam_days, fn_df, an_df, error>>
    /\ UNCHANGED aggVars
    /\ UNCHANGED exportVars

\* lines 179-202: the two tables are built and returned
BuildFrames ==
    /\ pc = "loop"
    /\ day_idx = Len(exam_days)
    /\ fn_df' = FrameOf(exam_days, fn_schedule)
    /\ an_df' = FrameOf(exam_days, an_schedule)
    /\ pc' = "done"
    /\ UNCHANGED <<courses_df, num_days, course_list, exam_days, fn_schedule,
                   an_schedule, course_idx, day_idx, courses_this_day, error>>
    /\ UNCHANGED aggVars
    /\ UNCHANGED exportVars

AggIdle ==
    /\ apc = "idle"
    /\ dfs = [hasDept |-> TRUE, hasCode |-> TRUE, rows |-> <<>>]
    /\ session = PRE_MID
    /\ sem_idx = 0
    /\ dept_idx = 0
    /\ all_mid = <<>>
    /\ result = <<>>

\* line 356: start_date = datetime(2025, 9, 20), as [y, m, d]
StartDate == [y |-> 2025, m |-> 9, d |-> 20]

\* no sheet built and no table kept yet
NoSheet == [fn_day_row |-> <<>>, fn_date_row |-> <<>>, fn_course_row |-> <<>>,
            an_day_row |-> <<>>, an_date_row |-> <<>>, an_course_row |-> <<>>]

ExportIdle ==
    /\ pre_mid_courses = <<>>
    /\ spc = "idle"
    /\ sheet_days = <<>>
    /\ sheet_i = 0
    /\ current_date = StartDate
    /\ day_to_date = [d \in {} |-> StartDate]
    /\ sheet = NoSheet

SchedIdle ==
    /\ pc = "idle"
    /\ courses_df = [hasCode |-> TRUE, codes |-> <<>>]
    /\ num_days = 7
    /\ course_list = <<>>
    /\ exam_days = <<>>
    /\ fn_schedule = [d \in {} |-> <<>>]
    /\ an_schedule = [d \in {} |-> <<>>]
    /\ course_idx = 0
    /\ day_idx = 0
    /\ courses_this_day = 0
    /\ fn_df = EmptyDataFrame
    /\ an_df = EmptyDataFrame
    /\ error = ""

Init == SchedIdle /\ AggIdle /\ ExportIdle

Next ==
    \/ ReturnEmpty
    \/ RaiseZeroDivision
    \/ BeginDistribution
    \/ DayIteration
    \/ BuildFrames

Spec == Init /\ [][Next]_vars

(* ------------- get_all_pre_mid_courses / get_all_post_mid_courses ----- *)
\* a department value that is not in DEPARTMENTS but contains one of them
OtherDepartment == "CS"

\* one course row of the source data
CourseRows(hasDept, hasCode) ==
    [sem  : Range(TARGET_SEMESTERS),
     dept : IF hasDept THEN Range(DEPARTMENTS) \cup {OtherDepartment} ELSE {""},
     code : IF hasCode THEN (1..MaxCodes) \cup {NA} ELSE {NA},
     flag : {PRE_MID, POST_MID}]

\* the data frames the scheduler is constructed with: n course rows, with
\* or without a Department column and a Course Code column
SourceData(hasDept, hasCode, n) ==
    {[hasDept |-> hasDept, hasCode |-> hasCode, rows |-> r] :
        r \in [1..n -> CourseRows(hasDept, hasCode)]}

\* ExcelLoader.get_semester_courses then ExcelLoader.parse_ltpsc: the rows
\* of one semester, in source order
SemesterCourses(data, semester) ==
    SelectSeq(data.rows, LAMBDA r : r.sem = semester)

\* lines 33-37: str.contains("^department$") is a full-string match; without
\* a Department column every row of the semester is taken
DeptCourses(data, semester, department) ==
    IF data.hasDept
    THEN SelectSeq(SemesterCourses(data, semester), LAMBDA r : r.dept = department)
    ELSE SemesterCourses(data, semester)

\* ExcelLoader.divide_courses_by_session: the rows by their session flag
DivideCoursesBySession(rows) ==
    [pre  |-> SelectSeq(rows, LAMBDA r : r.flag = PRE_MID),
     post |-> SelectSeq(rows, LAMBDA r : r.flag = POST_MID)]

\* lines 49-51: the Semester and Dept_Session columns are set
Tagged(rows, semester, department, sess) ==
    [i \in 1..Len(rows) |->
        [sem |-> rows[i].sem, dept |-> rows[i].dept, code |-> rows[i].code,
         flag |-> rows[i].flag, Semester |-> semester,
         Dept_Session |-> <<department, sess>>]]

\* drop_duplicates with keep='last'
DropDuplicatesKeepLast(rows) ==
    LET keep == {i \in 1..Len(rows) :
                    \A j \in (i + 1)..Len(rows) : rows[j].code # rows[i].code}
        RECURSIVE Build(_)
        Build(i) == IF i > Len(rows) THEN <<>>
                    ELSE IF i \in keep THEN <<rows[i]>> \o Build(i + 1)
                    ELSE Build(i + 1)
    IN Build(1)

\* drop_duplicates(subset=['Course Code'], keep='first'): missing codes
\* compare equal, so the first row with a missing code is kept too
DropDuplicates(rows) ==
    LET keep == {i \in 1..Len(rows) :
                    \A j \in 1..(i - 1) : rows[j].code # rows[i].code}
        RECURSIVE Build(_)
        Build(i) == IF i > Len(rows) THEN <<>>
                    ELSE IF i \in keep THEN <<rows[i]>> \o Build(i + 1)
                    ELSE Build(i + 1)
    IN Build(1)

\* lines 15-17 / 66-68: one of the two methods is called
BeginCollect ==
    /\ apc = "idle"
    /\ \E sess \in {PRE_MID, POST_MID} : session' = sess
    /\ sem_idx' = 0
    /\ dept_idx' = 0
    /\ all_mid' = <<>>
    /\ apc' = "walk"
    /\ UNCHANGED <<dfs, result>>
    /\ UNCHANGED schedVars
    /\ UNCHANGED exportVars

\* lines 21-28 / 72-79: a semester without courses is skipped
SkipSemester ==
    /\ apc = "walk"
    /\ sem_idx < Len(TARGET_SEMESTERS)
    /\ SemesterCourses(dfs, TARGET_SEMESTERS[sem_idx + 1]) = <<>>
    /\ sem_idx' = sem_idx + 1
    /\ UNCHANGED <<apc, dfs, session, dept_idx, all_mid, result>>
    /\ UNCHANGED schedVars
    /\ UNCHANGED exportVars

\* lines 31-52 / 82-103: one iteration of the department loop
CollectDepartment ==
    /\ apc = "walk"
    /\ sem_idx < Len(TARGET_SEMESTERS)
    /\ SemesterCourses(dfs, TARGET_SEMESTERS[sem_idx + 1]) # <<>>
    /\ LET semester     == TARGET_SEMESTERS[sem_idx + 1]
           department   == DEPARTMENTS[dept_idx + 1]
           dept_courses == DeptCourses(dfs, semester, department)
           divided      == DivideCoursesBySession(dept_courses)
           mid_courses  == IF session = PRE_MID THEN divided.pre ELSE divided.post
       IN all_mid' = IF dept_courses # <<>> /\ mid_courses # <<>>
                     THEN Append(all_mid, Tagged(mid_courses, semester, department, session))
                     ELSE all_mid
    /\ IF dept_idx + 1 < Len(DEPARTMENTS)
       THEN dept_idx' = dept_idx + 1 /\ sem_idx' = sem_idx
       ELSE dept_idx' = 0 /\ sem_idx' = sem_idx + 1
    /\ UNCHANGED <<apc, dfs, session, result>>
    /\ UNCHANGED schedVars
    /\ UNCHANGED exportVars

\* lines 54-64 / 105-115: concat, dedup by Course Code, return
FinishCollect ==
    /\ apc = "walk"
    /\ sem_idx = Len(TARGET_SEMESTERS)
    /\ result' = IF all_mid = <<>> THEN <<>>
                 ELSE IF dfs.hasCode THEN DropDuplicates(Flatten(all_mid))
                 ELSE Flatten(all_mid)
    /\ apc' = "done"
    /\ UNCHANGED <<dfs, session, sem_idx, dept_idx, all_mid>>
    /\ UNCHANGED schedVars
    /\ UNCHANGED exportVars

InitAgg ==
    /\ SchedIdle
    /\ ExportIdle
    /\ apc = "idle"
    /\ \E hd \in BOOLEAN, hc \in BOOLEAN, n \in 0..MaxRows : dfs \in SourceData(hd, hc, n)
    /\ session = PRE_MID
    /\ sem_idx = 0
    /\ dept_idx = 0
    /\ all_mid = <<>>
    /\ result = <<>>

NextAgg ==
    \/ BeginCollect
    \/ SkipSemester
    \/ CollectDepartment
    \/ FinishCollect

SpecAgg == InitAgg /\ [][NextAgg]_vars

(* ------------------- properties of schedule_exams --------------------- *)
\* the identifiers the call was given: distinct, none missing
InputCodes == IF courses_df.hasCode THEN CourseCodes(courses_df) ELSE <<>>

\* the call returned tables (it did not raise)
Returned == pc = "done"

\* the courses read back from one joined cell
CellCourses(cell) == SelectSeq(cell, LAMBDA c : c # Sep)

\* the bucket of the day at 1-indexed position i of a returned table
Bucket(df, i) == CellCourses(df.cell[df.columns[i]])

\* all buckets of the returned Assignment: FN of every day, then AN
AllBuckets ==
    [i \in 1..Len(fn_df.columns) |-> Bucket(fn_df, i)]
    \o [i \in 1..Len(an_df.columns) |-> Bucket(an_df, i)]

\* number of (bucket, position) places that hold identifier id
Occurrences(id) ==
    Cardinality({bp \in (1..Len(AllBuckets)) \X (1..MaxCourses + 1) :
                    /\ bp[2] <= Len(AllBuckets[bp[1]])
                    /\ AllBuckets[bp[1]][bp[2]] = id})

\* FN plus AN courses of the day at position i of the returned Assignment
DayCount(i) == Len(Bucket(fn_df, i)) + Len(Bucket(an_df, i))

\* the buckets in day order, FN before AN within each day
DayOrderConcat ==
    Flatten([i \in 1..Len(fn_df.columns) |-> Bucket(fn_df, i) \o Bucket(an_df, i)])

\* the case of the distribution claims: T >= 1 identifiers, D in 1..7
Distributed == Returned /\ Len(InputCodes) >= 1 /\ num_days \in 1..7

\* C1: after schedule_exams on T >= 1 distinct identifiers and D in 1..7 the
\* buckets together hold exactly T elements and every input identifier
\* occurs in exactly one bucket exactly once.
C1_Bijection ==
    Distributed =>
        /\ Len(Flatten(AllBuckets)) = Len(InputCodes)
        /\ \A id \in Range(InputCodes) : Occurrences(id) = 1

C1_Witness ==
    /\ Distributed
    /\ num_days = 7
    /\ Len(InputCodes) = MaxCourses
    /\ Len(courses_df.codes) > MaxCourses

\* C2: for num_days = 7 the returned Assignment holds 7 positionally distinct
\* days per slot, so the first and the second 'Monday' have separate FN
\* buckets and separate AN buckets.
C2_DaysNotMerged ==
    (Returned /\ Len(InputCodes) >= 1 /\ num_days = 7) =>
        /\ Len(fn_df.columns) = 7
        /\ Len(an_df.columns) = 7

\* C3: in the returned Assignment the course totals (FN plus AN) of any two
\* days differ by at most 1.
C3_BalanceBound ==
    Distributed =>
        \A i, j \in 1..Len(fn_df.columns) : DayCount(i) - DayCount(j) <= 1

\* C4: for every day of the returned Assignment the FN count minus the AN
\* count is 0 or 1.
C4_SlotBalance ==
    Distributed =>
        \A i \in 1..Len(fn_df.columns) :
            Len(Bucket(fn_df, i)) - Len(Bucket(an_df, i)) \in {0, 1}

\* C5: the returned buckets concatenated in day order, FN before AN within
\* each day, are exactly the shuffled list.
C5_OrderPreserved ==
    Distributed => DayOrderConcat = course_list

\* C6 as stated: on zero identifiers and D in 1..7 the call raises nothing
\* and every one of the D days has a defined, empty FN and AN bucket.
C6_EmptyBucketsPerDay ==
    (pc \in {"done", "raised"} /\ Len(InputCodes) = 0 /\ num_days \in 1..7) =>
        /\ Returned
        /\ Len(fn_df.columns) = num_days
        /\ Len(an_df.columns) = num_days
        /\ \A i \in 1..Len(fn_df.columns) : Bucket(fn_df, i) = <<>>
        /\ \A i \in 1..Len(an_df.columns) : Bucket(an_df, i) = <<>>

\* C6 amended: on zero identifiers and D in 1..7 the call raises nothing and
\* returns two empty tables without any day column: no bucket is defined.
C6_EmptyTables ==
    (pc \in {"done", "raised"} /\ Len(InputCodes) = 0 /\ num_days \in 1..7) =>
        /\ Returned
        /\ error = ""
        /\ fn_df = EmptyDataFrame
        /\ an_df = EmptyDataFrame

C6_Witness ==
    /\ Returned
    /\ courses_df.hasCode
    /\ courses_df.codes = <<NA>>
    /\ num_days = 7
    /\ fn_df.columns = <<>>

\* C9: for negative num_days and a non-empty course list the call ends in an
\* invalid-argument error and returns no Assignment.
C9_NegativeDaysRejected ==
    (pc # "idle" /\ num_days < 0 /\ Len(InputCodes) >= 1) =>
        /\ pc = "raised"
        /\ error = "ValueError"

\* C10: with base = T div D and remainder = T mod D the day at 0-indexed
\* position i of the returned Assignment holds base + 1 courses if
\* i < remainder and base courses otherwise.
C10_AllocationShape ==
    Distributed =>
        /\ Len(fn_df.columns) = num_days
        /\ \A i \in 0..(Len(fn_df.columns) - 1) :
            DayCount(i + 1) = (Len(InputCodes) \div num_days)
                              + (IF i < Len(InputCodes) % num_days THEN 1 ELSE 0)

(* ----------------- properties of the session aggregation -------------- *)
\* the method returned its SessionSet
Collected == apc = "done"

\* a row of the source data that the walk classifies into the requested
\* session at semester position si and department position di
ClassifiedAt(r, si, di) ==
    /\ r.sem = TARGET_SEMESTERS[si]
    /\ dfs.hasDept => r.dept = DEPARTMENTS[di]
    /\ r.flag = session

\* the (semester, department) positions that contribute identifier id
Contributors(id) ==
    {p \in (1..Len(TARGET_SEMESTERS)) \X (1..Len(DEPARTMENTS)) :
        \E k \in 1..Len(dfs.rows) :
            dfs.rows[k].code = id /\ ClassifiedAt(dfs.rows[k], p[1], p[2])}

\* position p comes no later than q in semester-then-department order
Earlier(p, q) == p[1] < q[1] \/ (p[1] = q[1] /\ p[2] <= q[2])

\* the rows of the SessionSet that carry identifier id
ResultRows(id) == {i \in 1..Len(result) : result[i].code = id}

\* C7: every identifier with a row classified into the requested session
\* has exactly one row in the SessionSet, the one of the earliest semester
\* and, within it, of the earliest department that contributes it.
C7_FirstOccurrenceKept ==
    (Collected /\ dfs.hasCode) =>
        \A id \in 1..MaxCodes :
            Contributors(id) # {} =>
                /\ Cardinality(ResultRows(id)) = 1
                /\ \A i \in ResultRows(id) :
                    \E p \in Contributors(id) :
                        /\ \A q \in Contributors(id) : Earlier(p, q)
                        /\ result[i].Semester = TARGET_SEMESTERS[p[1]]
                        /\ result[i].Dept_Session = <<DEPARTMENTS[p[2]], session>>

\* the same identifier in two semesters, the later semester listed first
C7_Witness ==
    /\ Collected
    /\ dfs.hasCode /\ dfs.hasDept
    /\ Len(dfs.rows) = 2
    /\ dfs.rows[1].code = dfs.rows[2].code
    /\ dfs.rows[1].code # NA
    /\ dfs.rows[1].sem = TARGET_SEMESTERS[2]
    /\ dfs.rows[2].sem = TARGET_SEMESTERS[1]
    /\ dfs.rows[1].flag = session /\ dfs.rows[2].flag = session
    /\ dfs.rows[1].dept = DEPARTMENTS[1] /\ dfs.rows[2].dept = DEPARTMENTS[2]
    /\ Len(result) = 1
    /\ result[1].Semester = TARGET_SEMESTERS[1]

\* C8: the SessionSet holds no row whose identifier is missing, so its size
\* is the number of distinct non-missing identifiers classified into the
\* session.
C8_MissingDropped ==
    (Collected /\ dfs.hasCode) =>
        /\ \A i \in 1..Len(result) : result[i].code # NA
        /\ Len(result) = Cardinality({id \in 1..MaxCodes : Contributors(id) # {}})

(* ------------- export_exam_timetable: both session sets --------------- *)
\* lines 487-491: the Pre-Mid table is kept and get_all_post_mid_courses
\* starts on the same data
CollectPostAfterPre ==
    /\ apc = "done"
    /\ session = PRE_MID
    /\ pre_mid_courses' = result
    /\ session' = POST_MID
    /\ sem_idx' = 0
    /\ dept_idx' = 0
    /\ all_mid' = <<>>
    /\ result' = <<>>
    /\ apc' = "walk"
    /\ UNCHANGED <<dfs, spc, sheet_days, sheet_i, current_date, day_to_date, sheet>>
    /\ UNCHANGED schedVars

NextCollectBoth ==
    \/ BeginCollect
    \/ SkipSemester
    \/ CollectDepartment
    \/ FinishCollect
    \/ CollectPostAfterPre

SpecCollectBoth == InitAgg /\ [][NextCollectBoth]_vars

\* the course identifiers of a table, missing ones left out
TableCodes(rows) == {rows[i].code : i \in 1..Len(rows)} \ {NA}

\* both methods have returned on the same data: pre_mid_courses holds the
\* Pre-Mid table, result the Post-Mid table
BothCollected == Collected /\ session = POST_MID

\* C11: the identifier sets returned by get_all_pre_mid_courses and
\* get_all_post_mid_courses on the same data share no course identifier.
C11_SessionSetsDisjoint ==
    BothCollected => TableCodes(pre_mid_courses) \cap TableCodes(result) = {}

(* --------------------- the 'at least 1 course' rule ------------------- *)
\* the day loop of a call with T >= 1 identifiers and D in 1..7
InDayLoop == pc = "loop" /\ Len(course_list) >= 1 /\ num_days \in 1..7

\* before an iteration the test of line 159 is false; after the last
\* iteration the cursor is T
FloorUpIdle ==
    InDayLoop =>
        /\ day_idx < Len(exam_days) =>
            ~FloorUpApplies(Len(course_list), Len(exam_days), day_idx, course_idx)
        /\ day_idx = Len(exam_days) => course_idx = Len(course_list)

\* an iteration allocates the plain base/remainder count and the guarded
\* appends place every one of them
NoAssignmentSkipped ==
    (InDayLoop /\ day_idx' = day_idx + 1) =>
        /\ courses_this_day' = PlainAllocation(Len(course_list), Len(exam_days), day_idx)
        /\ course_idx' = course_idx + courses_this_day'

\* C13: for T >= 1 and D in 1..7 the test 'cursor < total and allocation
\* == 0' is false at every iteration of the day loop, so the allocations
\* are the plain ones, they sum to T (the cursor is T after the last day)
\* and no guarded append is skipped.
C13_FloorUpNeverEffective == [](FloorUpIdle) /\ [][NoAssignmentSkipped]_vars

\* a trailing day with base 0: nothing allocated, the cursor already at T
C13_Witness ==
    /\ InDayLoop
    /\ num_days = 7
    /\ Len(course_list) = 3
    /\ day_idx = 5
    /\ course_idx = 3
    /\ courses_this_day = 0

(* --------------------------- _create_exam_sheet ----------------------- *)
\* calendar arithmetic of datetime + timedelta(days=k)
IsLeap(y) == (y % 4 = 0 /\ y % 100 # 0) \/ y % 400 = 0

DaysInMonth(m, y) ==
    IF m = 2 THEN (IF IsLeap(y) THEN 29 ELSE 28)
    ELSE IF m \in {4, 6, 9, 11} THEN 30
    ELSE 31

NextDay(date) ==
    IF date.d < DaysInMonth(date.m, date.y)
    THEN [y |-> date.y, m |-> date.m, d |-> date.d + 1]
    ELSE IF date.m < 12 THEN [y |-> date.y, m |-> date.m + 1, d |-> 1]
    ELSE [y |-> date.y + 1, m |-> 1, d |-> 1]

RECURSIVE AddDays(_, _)
AddDays(date, k) == IF k = 0 THEN date ELSE AddDays(NextDay(date), k - 1)

\* date.strftime('%d-%m-%Y'): the fields in day, month, year order
Strftime(date) == <<date.d, date.m, date.y>>

\* lines 375-383: the step from the previous day label
DaysToAdd(prev_day) ==
    IF prev_day = "Saturday" THEN 2
    ELSE IF prev_day = "Friday" THEN 3
    ELSE 1

\* DataFrame.empty
IsEmptyFrame(df) == df.columns = <<>>

\* lines 412-419 / 447-454: the course cell of every day column
CourseRow(df, days) ==
    [i \in 1..Len(days) |->
        IF days[i] \in Range(df.columns) /\ ~IsEmptyFrame(df)
        THEN df.cell[days[i]]
        ELSE <<>>]

\* lines 404-409 / 440-444: the date cell of every day column
DateRow(dates, days) == [i \in 1..Len(days) |-> Strftime(dates[days[i]])]

\* lines 496-509, 349-365: export_exam_timetable schedules on 7 days and,
\* unless both tables are empty, builds the sheet for the 7 day labels
BeginSheet ==
    /\ pc = "done"
    /\ num_days = 7
    /\ spc = "idle"
    /\ ~IsEmptyFrame(fn_df) \/ ~IsEmptyFrame(an_df)
    /\ sheet_days' = ExamDayNames
    /\ sheet_i' = 0
    /\ current_date' = StartDate
    /\ day_to_date' = [d \in {} |-> StartDate]
    /\ spc' = "dates"
    /\ UNCHANGED <<pre_mid_courses, sheet>>
    /\ UNCHANGED schedVars
    /\ UNCHANGED aggVars

\* lines 367-386: one iteration of the date loop
DateIteration ==
    /\ spc = "dates"
    /\ sheet_i < Len(sheet_days)
    /\ LET day  == sheet_days[sheet_i + 1]
           date == IF sheet_i = 0 THEN StartDate
                   ELSE AddDays(current_date, DaysToAdd(sheet_days[sheet_i]))
       IN /\ current_date' = date
          /\ day_to_date' = [d \in DOMAIN day_to_date \cup {day} |->
                                IF d = day THEN date ELSE day_to_date[d]]
    /\ sheet_i' = sheet_i + 1
    /\ UNCHANGED <<pre_mid_courses, spc, sheet_days, sheet>>
    /\ UNCHANGED schedVars
    /\ UNCHANGED aggVars

\* lines 388-473: the day, date and course rows of both sections (the
\* header, separator and padding cells hold fixed text)
BuildSheet ==
    /\ spc = "dates"
    /\ sheet_i = Len(sheet_days)
    /\ sheet' = [fn_day_row    |-> sheet_days,
                 fn_date_row   |-> DateRow(day_to_date, sheet_days),
                 fn_course_row |-> CourseRow(fn_df, sheet_days),
                 an_day_row    |-> sheet_days,
                 an_date_row   |-> DateRow(day_to_date, sheet_days),
                 an_course_row |-> CourseRow(an_df, sheet_days)]
    /\ spc' = "done"
    /\ UNCHANGED <<pre_mid_courses, sheet_days, sheet_i, current_date, day_to_date>>
    /\ UNCHANGED schedVars
    /\ UNCHANGED aggVars

NextSheet ==
    \/ ReturnEmpty
    \/ RaiseZeroDivision
    \/ BeginDistribution
    \/ DayIteration
    \/ BuildFrames
    \/ BeginSheet
    \/ DateIteration
    \/ BuildSheet

SpecSheet == Init /\ [][NextSheet]_vars

\* the sheet for the 7-entry day sequence has been built
SheetBuilt == spc = "done" /\ sheet_days = ExamDayNames

\* the calendar offsets of the 7 positional days from the start date
ExpectedOffsets == <<0, 2, 3, 4, 5, 6, 9>>

\* a rendered date is before another one
RenderedBefore(a, b) ==
    \/ a[3] < b[3]
    \/ a[3] = b[3] /\ a[2] < b[2]
    \/ a[3] = b[3] /\ a[2] = b[2] /\ a[1] < b[1]

\* a date row shows the positional dates, strictly increasing
PositionalDates(row) ==
    /\ Len(row) = 7
    /\ \A i \in 1..7 : row[i] = Strftime(AddDays(StartDate, ExpectedOffsets[i]))
    /\ \A i, j \in 1..7 : i < j => RenderedBefore(row[i], row[j])
    /\ row[2] # row[7]

\* C12: in the sheet built for Saturday, Monday, ..., Friday, Monday the
\* dates of the seven day columns, in the FN and in the AN date row, are the
\* start date plus 0, 2, 3, 4, 5, 6, 9 days, strictly increasing, so the two
\* Monday columns show different dates.
C12_DatesFollowPositions ==
    SheetBuilt =>
        /\ PositionalDates(sheet.fn_date_row)
        /\ PositionalDates(sheet.an_date_row)

====
